---- MODULE Spec2Model ----
(***************************************************************************)
(* State-machine model of the voice client in src/App.tsx: the session     *)
(* lifecycle (connectToGemini, handleDisconnect, toggleMic, cleanupAudio)  *)
(* and the callbacks the remote session and the host audio subsystem       *)
(* deliver (onopen, onmessage, onclose, onerror, onaudioprocess, 'ended'). *)
(*                                                                         *)
(* Every call of connectToGemini is an "attempt" a \in Attempts.  The      *)
(* objects an attempt creates (two AudioContexts, the MediaStream, the     *)
(* ScriptProcessor, the session and its promise) are indexed by a; a ref   *)
(* of the component holds an attempt number, or Null for null.             *)
(*                                                                         *)
(* Time is counted in output sample frames (1/24000 s), so the duration of *)
(* a decoded buffer is its length in frames.                               *)
(***************************************************************************)
EXTENDS Integers, Sequences, FiniteSets, TLC

\* ---------------------------------------------------------------- bounds
\* The lifecycle specification Spec
MaxAttempts == 2      \* calls of connectToGemini
MaxMsgs     == 1      \* inbound messages over all sessions
MaxTime     == 1      \* ticks of each output clock
\* The playback specification PlaySpec
MaxPlayAttempts == 1  \* calls of connectToGemini
MaxPlayMsgs == 3      \* inbound messages
MaxPlayTime == 1      \* ticks of the output clock
\* The reconnect specification LongSpec
MaxLongAttempts == 3  \* calls of connectToGemini
\* The microphone specification MicSpec
MaxMicAttempts == 2   \* calls of connectToGemini
MaxMicFrames == 3     \* captured microphone frames
MaxMicToggles == 2    \* clicks on the mute button
\* The overlap specification RaceSpec
MaxRaceAttempts == 4  \* calls of connectToGemini
MaxRaceFrames == 2    \* captured microphone frames
\* All
MaxBytes    == 4      \* longest decoded audio payload, in bytes
MaxFrames   == 1      \* captured microphone frames
MaxToggles  == 1      \* clicks on the mute button
MaxUncaught == 2      \* errors left uncaught before a click that only throws
MaxWaiting  == 2      \* clicks on Disconnect waiting on one pending promise

Max(a, b) == IF a >= b THEN a ELSE b

Null == 0
Attempts == 1..Max(Max(Max(MaxAttempts, MaxMicAttempts), MaxRaceAttempts),
                  Max(MaxPlayAttempts, MaxLongAttempts))

DISCONNECTED == "DISCONNECTED"
CONNECTING   == "CONNECTING"
CONNECTED    == "CONNECTED"
ERROR        == "ERROR"
ConnectionState == {DISCONNECTED, CONNECTING, CONNECTED, ERROR}

\* sample rate and channel count the inbound audio is decoded with
OutputSampleRate == 24000
NumChannels == 1
\* bytes of one 16-bit sample
BytesPerSample == 2
\* the meter's amplification (setVolume(rms * 5))
VolumeGain == 5
\* samples of a captured frame (stands for the 4096 of createScriptProcessor)
\* and the integer that stands for the sample value 1.0
FrameLen == 2
SampleScale == 1

VARIABLES
  \* --- React state (App.tsx 11-15)
  connectionState, logs, isMicOn, volume, aiVolume,
  \* --- refs (App.tsx 20-27)
  inputAudioContextRef, outputAudioContextRef, mediaStreamRef, processorRef,
  sourceNodeRef, sessionPromiseRef, nextStartTime, audioSources,
  \* --- objects of each attempt (closure variables of connectToGemini)
  pc,        \* position of the async connectToGemini: "idle", "gum", "done"
  closure,   \* the connectionState value the closure of the attempt captured
  inCtx,     \* inputCtx:  "none", "running", "closed"
  outCtx,    \* outputCtx: "none", "running", "closed"
  clock,     \* outputCtx.currentTime
  stream,    \* the MediaStream: "none", "live", "stopped"
  enabled,   \* enabled flag of the stream's audio track
  proc,      \* the ScriptProcessor: "none", "live", "off"
  sess,      \* the remote session: "none", "connecting", "open", "errored",
             \*                     "closed", "rejected"
  promise,   \* sessionPromise: "none", "pending", "resolved", "rejected"
  reactions, \* callbacks registered on the still pending sessionPromise
  \* --- playback units and decodes in flight
  units,     \* every AudioBufferSourceNode ever started
  decoding,  \* onmessage invocations suspended at await decodeAudioData
  \* --- the wire
  sent,      \* frames handed to session.sendRealtimeInput, in order
  \* --- history
  nMsgs, nFrames, nToggles, epoch, uncaught, released, last

vars == << connectionState, logs, isMicOn, volume, aiVolume,
           inputAudioContextRef, outputAudioContextRef, mediaStreamRef,
           processorRef, sourceNodeRef, sessionPromiseRef, nextStartTime,
           audioSources, pc, closure, inCtx, outCtx, clock, stream, enabled,
           proc, sess, promise, reactions, units, decoding, sent,
           nMsgs, nFrames, nToggles, epoch, uncaught, released, last >>

\* The whole state as one record: the handlers below are functions on it.
Cur == [ connectionState |-> connectionState, logs |-> logs,
         isMicOn |-> isMicOn, volume |-> volume, aiVolume |-> aiVolume,
         inputAudioContextRef |-> inputAudioContextRef,
         outputAudioContextRef |-> outputAudioContextRef,
         mediaStreamRef |-> mediaStreamRef, processorRef |-> processorRef,
         sourceNodeRef |-> sourceNodeRef,
         sessionPromiseRef |-> sessionPromiseRef,
         nextStartTime |-> nextStartTime, audioSources |-> audioSources,
         pc |-> pc, closure |-> closure, inCtx |-> inCtx, outCtx |-> outCtx,
         clock |-> clock, stream |-> stream, enabled |-> enabled,
         proc |-> proc, sess |-> sess, promise |-> promise,
         reactions |-> reactions, units |-> units, decoding |-> decoding,
         sent |-> sent, nMsgs |-> nMsgs, nFrames |-> nFrames,
         nToggles |-> nToggles, epoch |-> epoch, uncaught |-> uncaught,
         released |-> released, last |-> last ]

Becomes(s) ==
  /\ connectionState' = s.connectionState /\ logs' = s.logs
  /\ isMicOn' = s.isMicOn /\ volume' = s.volume /\ aiVolume' = s.aiVolume
  /\ inputAudioContextRef' = s.inputAudioContextRef
  /\ outputAudioContextRef' = s.outputAudioContextRef
  /\ mediaStreamRef' = s.mediaStreamRef /\ processorRef' = s.processorRef
  /\ sourceNodeRef' = s.sourceNodeRef
  /\ sessionPromiseRef' = s.sessionPromiseRef
  /\ nextStartTime' = s.nextStartTime /\ audioSources' = s.audioSources
  /\ pc' = s.pc /\ closure' = s.closure /\ inCtx' = s.inCtx
  /\ outCtx' = s.outCtx /\ clock' = s.clock /\ stream' = s.stream
  /\ enabled' = s.enabled /\ proc' = s.proc /\ sess' = s.sess
  /\ promise' = s.promise /\ reactions' = s.reactions /\ units' = s.units
  /\ decoding' = s.decoding /\ sent' = s.sent /\ nMsgs' = s.nMsgs
  /\ nFrames' = s.nFrames /\ nToggles' = s.nToggles /\ epoch' = s.epoch
  /\ uncaught' = s.uncaught /\ released' = s.released /\ last' = s.last

\* the volume 0 (useState(0), setVolume(0)) as a fraction  sq / per
ZeroVolume == [sq |-> 0, per |-> 1]

\* What the step just taken was: the handler, the attempt whose closure ran
\* it, whether it ran the interruption branch (and how many units that one
\* found in the active set), whether a decode failed in it, whether
\* connectToGemini failed in it; and what the handler found when it started.
Did(s, op, a) ==
  [op |-> op, att |-> a, intr |-> FALSE, flushed |-> 0, bad |-> FALSE,
   failed |-> FALSE,
   state |-> s.connectionState, cursor |-> s.nextStartTime,
   nlogs |-> Len(s.logs), active |-> s.audioSources, uncaught |-> s.uncaught]

Init ==
  /\ connectionState = DISCONNECTED /\ logs = << >>
  /\ isMicOn = TRUE /\ volume = ZeroVolume /\ aiVolume = 0
  /\ inputAudioContextRef = Null /\ outputAudioContextRef = Null
  /\ mediaStreamRef = Null /\ processorRef = Null /\ sourceNodeRef = Null
  /\ sessionPromiseRef = Null /\ nextStartTime = 0 /\ audioSources = {}
  /\ pc = [a \in Attempts |-> "idle"]
  /\ closure = [a \in Attempts |-> DISCONNECTED]
  /\ inCtx = [a \in Attempts |-> "none"]
  /\ outCtx = [a \in Attempts |-> "none"]
  /\ clock = [a \in Attempts |-> 0]
  /\ stream = [a \in Attempts |-> "none"]
  /\ enabled = [a \in Attempts |-> TRUE]
  /\ proc = [a \in Attempts |-> "none"]
  /\ sess = [a \in Attempts |-> "none"]
  /\ promise = [a \in Attempts |-> "none"]
  /\ reactions = [a \in Attempts |-> << >>]
  /\ units = << >> /\ decoding = {} /\ sent = << >>
  /\ nMsgs = 0 /\ nFrames = 0 /\ nToggles = 0 /\ epoch = 0 /\ uncaught = 0
  /\ released = FALSE
  /\ last = [op |-> "init", att |-> Null, intr |-> FALSE, flushed |-> 0,
             bad |-> FALSE, failed |-> FALSE, state |-> DISCONNECTED,
             cursor |-> 0, nlogs |-> 0, active |-> {}, uncaught |-> 0]

\* ------------------------------------------------------------- helpers
\* addLog: append one entry to the user-visible log.  `a` records the attempt
\* whose handler wrote the entry (Null for a UI handler outside any attempt).
addLog(s, text, a) ==
  [s EXCEPT !.logs = Append(@, [text |-> text, sender |-> "system", att |-> a])]

setConnectionState(s, v) == [s EXCEPT !.connectionState = v]

\* source.stop() on every unit of the active set (an error it raises is
\* swallowed by the caller or cannot occur: every unit of the set was started)
StopAll(s) ==
  [s EXCEPT !.units = [u \in DOMAIN s.units |->
                         IF u \in s.audioSources /\ s.units[u].state = "started"
                         THEN [s.units[u] EXCEPT !.state = "stopped"]
                         ELSE s.units[u]]]

\* AudioContext.close(): closing a context that is already closed rejects the
\* promise close() returns, which nothing handles.
CloseInput(s, c) ==
  [s EXCEPT !.inCtx[c] = "closed",
            !.uncaught = IF s.inCtx[c] = "closed" THEN @ + 1 ELSE @]
CloseOutput(s, c) ==
  [s EXCEPT !.outCtx[c] = "closed",
            !.uncaught = IF s.outCtx[c] = "closed" THEN @ + 1 ELSE @]

\* cleanupAudio that closes the two contexts and keeps their refs
cleanupAudioKeepsContextRefs(s) ==
  LET s1 == [StopAll(s) EXCEPT !.audioSources = {}]
      s2 == IF s1.processorRef # Null
            THEN [s1 EXCEPT !.proc[s1.processorRef] = "off", !.processorRef = Null]
            ELSE s1
      s3 == [s2 EXCEPT !.sourceNodeRef = Null]
      s4 == IF s3.mediaStreamRef # Null
            THEN [s3 EXCEPT !.stream[s3.mediaStreamRef] = "stopped",
                            !.mediaStreamRef = Null]
            ELSE s3
      s5 == IF s4.inputAudioContextRef # Null
            THEN CloseInput(s4, s4.inputAudioContextRef) ELSE s4
      s6 == IF s5.outputAudioContextRef # Null
            THEN CloseOutput(s5, s5.outputAudioContextRef) ELSE s5
  IN  [s6 EXCEPT !.volume = ZeroVolume, !.aiVolume = 0]

\* cleanupAudio (App.tsx 50-85)
cleanupAudio(s) ==
  LET s1 == [StopAll(s) EXCEPT !.audioSources = {}]
      s2 == IF s1.processorRef # Null
            THEN [s1 EXCEPT !.proc[s1.processorRef] = "off", !.processorRef = Null]
            ELSE s1
      s3 == IF s2.sourceNodeRef # Null
            THEN [s2 EXCEPT !.sourceNodeRef = Null]
            ELSE s2
      s4 == IF s3.mediaStreamRef # Null
            THEN [s3 EXCEPT !.stream[s3.mediaStreamRef] = "stopped",
                            !.mediaStreamRef = Null]
            ELSE s3
      s5 == IF s4.inputAudioContextRef # Null
            THEN [CloseInput(s4, s4.inputAudioContextRef)
                    EXCEPT !.inputAudioContextRef = Null]
            ELSE s4
      s6 == IF s5.outputAudioContextRef # Null
            THEN [CloseOutput(s5, s5.outputAudioContextRef)
                    EXCEPT !.outputAudioContextRef = Null]
            ELSE s5
  IN  [s6 EXCEPT !.volume = ZeroVolume, !.aiVolume = 0]

\* the catch block without its setConnectionState(ERROR)
catchConnectKeepsState(s, a) ==
  LET s1 == addLog(s, "Failed to connect", a)
      s3 == cleanupAudio(s1)
  IN  [s3 EXCEPT !.pc[a] = "done", !.last.failed = TRUE]

\* the catch block of connectToGemini (App.tsx 242-247)
catchConnect(s, a) ==
  LET s1 == addLog(s, "Failed to connect", a)
      s2 == setConnectionState(s1, ERROR)
      s3 == cleanupAudio(s2)
  IN  [s3 EXCEPT !.pc[a] = "done", !.last.failed = TRUE]

\* connectToGemini up to its first await (App.tsx 88-104).  `outcome` is what
\* the host does: "ok", or the constructor of the input or of the output
\* AudioContext throws.
connectToGemini(s, a, outcome) ==
  LET s0 == [s EXCEPT !.closure[a] = s.connectionState,
                      !.released = FALSE,
                      !.last = Did(s, "connect", a)]
      s1 == setConnectionState(s0, CONNECTING)
      s2 == addLog(s1, "Initializing audio contexts...", a)
      s3 == [s2 EXCEPT !.inCtx[a] = "running", !.inputAudioContextRef = a]
      s4 == [s3 EXCEPT !.outCtx[a] = "running", !.outputAudioContextRef = a]
      s5 == addLog(s4, "Requesting microphone access...", a)
  IN  CASE outcome = "inputCtxThrows"  -> catchConnect(s2, a)
        [] outcome = "outputCtxThrows" -> catchConnect(s3, a)
        [] OTHER                       -> [s5 EXCEPT !.pc[a] = "gum"]

\* getUserMedia rejects (permission denied, no device): the await throws into
\* the catch block (App.tsx 104, 242-247)
getUserMediaDenied(s, a) ==
  catchConnect([s EXCEPT !.last = Did(s, "gumDenied", a)], a)

\* getUserMedia resolves: connectToGemini from line 105 to its end.  `outcome`
\* is "ok" or "clientThrows" (new GoogleGenAI throws, e.g. without an API key).
getUserMediaGranted(s, a, outcome) ==
  LET s0 == [s EXCEPT !.last = Did(s, "gumGranted", a),
                      !.stream[a] = "live", !.enabled[a] = TRUE,
                      !.mediaStreamRef = a]
      s1 == addLog(s0, "Connecting to Gemini Live API...", a)
      s2 == [s1 EXCEPT !.sess[a] = "connecting", !.promise[a] = "pending",
                       !.sessionPromiseRef = a, !.pc[a] = "done"]
  IN  IF outcome = "clientThrows" THEN catchConnect(s0, a) ELSE s2

\* ---------------------------------------------------- session callbacks
\* interruption with the cursor reset left out
interruptionKeepsCursor(s, a) ==
  LET s1 == addLog(s, "User interrupted AI.", a)
      s2 == [StopAll(s1) EXCEPT !.audioSources = {}]
  IN  [s2 EXCEPT !.epoch = @ + 1, !.last.intr = TRUE,
                 !.last.flushed = Cardinality(s.audioSources)]

\* the interruption branch of onmessage (App.tsx 219-224)
interruption(s, a) ==
  LET s1 == addLog(s, "User interrupted AI.", a)
      s2 == [StopAll(s1) EXCEPT !.audioSources = {}]
  IN  [s2 EXCEPT !.nextStartTime = s2.clock[a],
                 !.epoch = @ + 1, !.last.intr = TRUE,
                 !.last.flushed = Cardinality(s.audioSources)]

\* session.sendRealtimeInput({media: pcmBlob}) on the session of attempt p
sendRealtimeInput(s, p, n) ==
  [s EXCEPT !.sent = Append(@, [frame |-> n, to |-> p, afterRelease |-> s.released])]

\* handleDisconnect after its await (App.tsx 257-260)
disconnectResume(s) ==
  LET s1 == cleanupAudio(s)
      s2 == setConnectionState(s1, DISCONNECTED)
  IN  [s2 EXCEPT !.sessionPromiseRef = Null, !.released = TRUE]

\* The callbacks waiting on the promise of attempt p run in the order they
\* were registered, once the promise is fulfilled.
RECURSIVE RunReactions(_, _, _)
RunReactions(s, p, q) ==
  IF q = << >> THEN s
  ELSE LET r == Head(q)
           s1 == IF r.kind = "send" THEN sendRealtimeInput(s, p, r.frame)
                 ELSE disconnectResume(s)
       IN  RunReactions(s1, p, Tail(q))

resolvePromise(s, p) ==
  RunReactions([s EXCEPT !.promise[p] = "resolved", !.reactions[p] = << >>],
               p, s.reactions[p])

\* ai.live.connect rejects (the promise is not awaited inside the try block,
\* App.tsx 113, 240).  With no then() or await registered on it the rejection
\* itself is unhandled; otherwise the promise counts as handled and the
\* rejection of each promise derived from it by then() or await is unhandled.
sessionRejected(s, a) ==
  [s EXCEPT !.promise[a] = "rejected", !.sess[a] = "rejected",
            !.reactions[a] = << >>,
            !.uncaught = @ + Max(1, Len(s.reactions[a])),
            !.last = [Did(s, "reject", a) EXCEPT !.failed = TRUE]]

\* onopen (App.tsx 123-156).  `throws`: createMediaStreamSource on a context
\* that has been closed meanwhile raises InvalidStateError on some hosts; the
\* error leaves the callback and the session promise is never fulfilled.
\* Otherwise the promise is fulfilled within the same task.
onopen(s, a, throws) ==
  LET s0 == [s EXCEPT !.last = Did(s, "open", a), !.sess[a] = "open"]
      s1 == addLog(s0, "Connected! Start speaking to CodeCompanion.", a)
      s2 == setConnectionState(s1, CONNECTED)
      s3 == [s2 EXCEPT !.nextStartTime = s2.clock[a], !.epoch = @ + 1]
      s4 == [s3 EXCEPT !.sourceNodeRef = a, !.processorRef = a,
                       !.proc[a] = "live"]
  IN  IF throws THEN [s3 EXCEPT !.uncaught = @ + 1]
      ELSE resolvePromise(s4, a)

\* decode (utils/audioUtils): the base64 step; FormatError on a malformed text
decode(m) == [ok |-> m.audio = "ok", bytes |-> m.bytes]

\* decodeAudioData (utils/audioUtils): raw bytes as 16-bit samples, one buffer
\* of length bytes / 2 / channels at the given rate
decodeAudioData(bytes, sampleRate, numChannels) ==
  [length |-> bytes \div (BytesPerSample * numChannels), sampleRate |-> sampleRate]

\* audioBuffer.duration, in frames of the output clock
Duration(buffer) == (buffer.length * OutputSampleRate) \div buffer.sampleRate

\* onmessage that sets the cursor to the clock instead of clamping it
onmessageNoClamp(s, a, m) ==
  LET s0 == [s EXCEPT !.last = Did(s, "message", a), !.nMsgs = @ + 1]
      s1 == [s0 EXCEPT !.nextStartTime = s0.clock[a]]
      s2 == [s1 EXCEPT !.last.bad = TRUE]
      d  == [id |-> s0.nMsgs, att |-> a, bytes |-> decode(m).bytes,
             interrupted |-> m.interrupted, epoch |-> s1.epoch]
  IN  CASE m.audio = "none" ->
             IF m.interrupted THEN interruption(s0, a) ELSE s0
        [] ~decode(m).ok ->
             IF m.interrupted THEN interruption(s2, a) ELSE s2
        [] OTHER -> [s1 EXCEPT !.decoding = @ \cup {d}]

\* onmessage whose catch block reports the failure in the user-visible log
onmessageLogsDecodeError(s, a, m) ==
  LET s0 == [s EXCEPT !.last = Did(s, "message", a), !.nMsgs = @ + 1]
      s1 == [s0 EXCEPT !.nextStartTime = Max(s0.nextStartTime, s0.clock[a])]
      s2 == addLog([s1 EXCEPT !.last.bad = TRUE], "Error decoding audio", a)
      d  == [id |-> s0.nMsgs, att |-> a, bytes |-> decode(m).bytes,
             interrupted |-> m.interrupted, epoch |-> s1.epoch]
  IN  CASE m.audio = "none" ->
             IF m.interrupted THEN interruption(s0, a) ELSE s0
        [] ~decode(m).ok ->
             IF m.interrupted THEN interruption(s2, a) ELSE s2
        [] OTHER -> [s1 EXCEPT !.decoding = @ \cup {d}]

\* onmessage up to its await (App.tsx 157-168), and to its end when the
\* message carries no audio or decode throws (App.tsx 206-224)
onmessage(s, a, m) ==
  LET s0 == [s EXCEPT !.last = Did(s, "message", a), !.nMsgs = @ + 1]
      s1 == [s0 EXCEPT !.nextStartTime = Max(s0.nextStartTime, s0.clock[a])]
      s2 == [s1 EXCEPT !.last.bad = TRUE]
      d  == [id |-> s0.nMsgs, att |-> a, bytes |-> decode(m).bytes,
             interrupted |-> m.interrupted, epoch |-> s1.epoch]
  IN  CASE m.audio = "none" ->
             IF m.interrupted THEN interruption(s0, a) ELSE s0
        [] ~decode(m).ok ->
             IF m.interrupted THEN interruption(s2, a) ELSE s2
        [] OTHER -> [s1 EXCEPT !.decoding = @ \cup {d}]

\* analyser.getByteFrequencyData averaged over 128 (App.tsx 186-190): an
\* analyser whose source has not started yet reads silence
AnalyserLevel(started) == IF started THEN 1 ELSE 0

\* the test that ends updateAiVol (App.tsx 191-193): requestAnimationFrame is
\* called when the connectionState of the render whose connectToGemini made
\* this session is CONNECTED
Rearms(s, a) == s.closure[a] = CONNECTED

\* onmessage after its await (App.tsx 175-224).  A unit records whether its
\* sampler re-armed itself after its first sample (armed) and the connection
\* state the component had then (conn).
onmessageResume(s, d) ==
  LET a  == d.att
      buffer == decodeAudioData(d.bytes, OutputSampleRate, NumChannels)
      s0 == [s EXCEPT !.last = Did(s, "decoded", a), !.decoding = @ \ {d}]
      s1 == [s0 EXCEPT !.aiVolume = AnalyserLevel(FALSE)]
      u  == [att |-> a, msg |-> d.id, start |-> s1.nextStartTime,
             dur |-> Duration(buffer), state |-> "started",
             now |-> s1.clock[a], arrEpoch |-> d.epoch, epoch |-> s1.epoch,
             armed |-> Rearms(s1, a), conn |-> s1.connectionState]
      s2 == [s1 EXCEPT !.units = Append(@, u)]
      s3 == [s2 EXCEPT !.nextStartTime = @ + Duration(buffer)]
      s4 == [s3 EXCEPT !.audioSources = @ \cup {Len(s3.units)}]
  IN  IF d.interrupted THEN interruption(s4, a) ELSE s4

\* onclose (App.tsx 226-230)
onclose(s, a) ==
  LET s0 == [s EXCEPT !.last = Did(s, "close", a), !.sess[a] = "closed"]
      s1 == addLog(s0, "Session closed.", a)
      s2 == setConnectionState(s1, DISCONNECTED)
  IN  cleanupAudio(s2)

\* onerror (App.tsx 231-236)
onerror(s, a) ==
  LET s0 == [s EXCEPT !.last = Did(s, "error", a), !.sess[a] = "errored"]
      s1 == addLog(s0, "Error", a)
      s2 == setConnectionState(s1, ERROR)
  IN  cleanupAudio(s2)

\* the 'ended' listener without its delete
onendedKeepsUnit(s, u) ==
  [s EXCEPT !.aiVolume = 0,
            !.units[u].state = "ended", !.last = Did(s, "ended", s.units[u].att)]

\* the 'ended' listener of a unit (App.tsx 197-200)
onended(s, u) ==
  [s EXCEPT !.audioSources = @ \ {u}, !.aiVolume = 0,
            !.units[u].state = "ended", !.last = Did(s, "ended", s.units[u].att)]

\* ------------------------------------------------------------ UI handlers
\* handleDisconnect (App.tsx 250-262): the await continues in the same task
\* when the promise is already fulfilled, waits while it is pending, and
\* throws out of the handler when it is rejected.
handleDisconnect(s) ==
  LET p  == s.sessionPromiseRef
      s0 == [s EXCEPT !.last = Did(s, "disconnect", p)]
      s1 == addLog(s0, "Disconnecting...", Null)
  IN  CASE p = Null -> s0
        [] s.promise[p] = "resolved" -> disconnectResume(s1)
        [] s.promise[p] = "pending" ->
             [s1 EXCEPT !.reactions[p] = Append(@, [kind |-> "disconnect", frame |-> 0])]
        [] OTHER -> [s1 EXCEPT !.uncaught = @ + 1]

\* toggleMic that also takes the capture node out of the graph
toggleMicStopsCapture(s) ==
  LET m  == s.mediaStreamRef
      s0 == [s EXCEPT !.last = Did(s, "toggle", m), !.nToggles = @ + 1]
      s1 == [s0 EXCEPT !.enabled[m] = ~@, !.proc[m] = "off",
                       !.processorRef = Null]
      s2 == [s1 EXCEPT !.isMicOn = s1.enabled[m]]
  IN  IF m = Null THEN s0
      ELSE addLog(s2, IF s2.enabled[m] THEN "Microphone unmuted."
                      ELSE "Microphone muted.", Null)

\* toggleMic (App.tsx 264-273)
toggleMic(s) ==
  LET m  == s.mediaStreamRef
      s0 == [s EXCEPT !.last = Did(s, "toggle", m), !.nToggles = @ + 1]
      s1 == [s0 EXCEPT !.enabled[m] = ~@]
      s2 == [s1 EXCEPT !.isMicOn = s1.enabled[m]]
  IN  IF m = Null THEN s0
      ELSE addLog(s2, IF s2.enabled[m] THEN "Microphone unmuted."
                      ELSE "Microphone muted.", Null)

\* the volume meter (App.tsx 139-143): setVolume(sqrt(sum / length) * 5), kept
\* as the exact square  volume^2 = sq / per  (samples in units of 1/SampleScale)
SumSq(f) == LET RECURSIVE Go(_)
                Go(i) == IF i = 0 THEN 0 ELSE f[i] * f[i] + Go(i - 1)
            IN  Go(Len(f))
Volume(f) == [sq |-> VolumeGain * VolumeGain * SumSq(f),
              per |-> Len(f) * SampleScale * SampleScale]

\* processor.onaudioprocess (App.tsx 136-152)
onaudioprocess(s, a, f) ==
  LET p  == s.sessionPromiseRef
      n  == s.nFrames + 1
      s0 == [s EXCEPT !.last = Did(s, "frame", a), !.nFrames = n]
      s1 == [s0 EXCEPT !.volume = Volume(f)]
  IN  CASE p = Null -> s1
        [] s.promise[p] = "resolved" -> sendRealtimeInput(s1, p, n)
        [] s.promise[p] = "pending" ->
             [s1 EXCEPT !.reactions[p] = Append(@, [kind |-> "send", frame |-> n])]
        [] OTHER -> [s1 EXCEPT !.uncaught = @ + 1]

\* inbound messages: serverContent.modelTurn...inlineData.data absent ("none"),
\* malformed base64 ("bad") or the base64 of `bytes` bytes of PCM; and
\* serverContent.interrupted.  A message with neither audio nor the
\* interruption flag changes nothing and is left out.
Messages ==
  [audio : {"none"}, bytes : {0}, interrupted : {TRUE}]
  \cup [audio : {"bad"}, bytes : {0}, interrupted : BOOLEAN]
  \cup [audio : {"ok"},
        bytes : {n \in 1..MaxBytes : n % BytesPerSample = 0},
        interrupted : BOOLEAN]

\* captured frames: FrameLen samples in [-1, 1]
Silence == [i \in 1..FrameLen |-> 0]
Frames == {Silence, [i \in 1..FrameLen |-> IF i = 1 THEN SampleScale ELSE 0]}

\* ------------------------------------------------------------- actions
\* The Start button is rendered unless CONNECTED and disabled while CONNECTING
\* (App.tsx 360-375).  Attempts are numbered in the order they are made.
NextAttempt(a) == pc[a] = "idle" /\ \A b \in Attempts : b < a => pc[b] # "idle"

Connect(a) ==
  /\ connectionState \in {DISCONNECTED, ERROR}
  /\ NextAttempt(a)
  /\ \E outcome \in {"ok", "inputCtxThrows", "outputCtxThrows"} :
       Becomes(connectToGemini(Cur, a, outcome))

GumDenied(a) ==
  /\ pc[a] = "gum"
  /\ Becomes(getUserMediaDenied(Cur, a))

GumGranted(a) ==
  /\ pc[a] = "gum"
  /\ \E outcome \in {"ok", "clientThrows"} :
       Becomes(getUserMediaGranted(Cur, a, outcome))

SessionReject(a) ==
  /\ sess[a] = "connecting" /\ promise[a] = "pending"
  /\ Becomes(sessionRejected(Cur, a))

SessionOpen(a) ==
  /\ sess[a] = "connecting"
  /\ \E throws \in (IF inCtx[a] = "closed" THEN BOOLEAN ELSE {FALSE}) :
       Becomes(onopen(Cur, a, throws))

Message(a, maxMsgs) ==
  /\ sess[a] = "open"
  /\ nMsgs < maxMsgs
  /\ \E m \in Messages : Becomes(onmessage(Cur, a, m))

\* Decodes complete in any order.
Decoded(d) ==
  /\ d \in decoding
  /\ Becomes(onmessageResume(Cur, d))

SessionError(a) ==
  /\ sess[a] \in {"connecting", "open"}
  /\ Becomes(onerror(Cur, a))

\* A session closes after it was open or after its error event.
SessionClose(a) ==
  /\ sess[a] \in {"open", "errored"}
  /\ Becomes(onclose(Cur, a))

\* the clicks on Disconnect whose await still waits on the promise of attempt p
WaitingClicks(p) ==
  {i \in DOMAIN reactions[p] : reactions[p][i].kind = "disconnect"}

\* The Disconnect button is rendered only while CONNECTED (App.tsx 360-366).
\* A click that finds no session promise does nothing; the clicks whose await
\* waits on a pending promise and the clicks whose await throws are bounded.
Disconnect ==
  /\ connectionState = CONNECTED
  /\ sessionPromiseRef # Null
  /\ promise[sessionPromiseRef] = "rejected" => uncaught < MaxUncaught
  /\ Cardinality(WaitingClicks(sessionPromiseRef)) < MaxWaiting
  /\ Becomes(handleDisconnect(Cur))

\* The mute button is enabled only while CONNECTED (App.tsx 377-379).
ToggleMic(maxToggles) ==
  /\ connectionState = CONNECTED
  /\ nToggles < maxToggles
  /\ Becomes(toggleMic(Cur))

\* The host delivers a frame to a processor whose callback is installed and
\* whose context runs.  A disabled or stopped track yields silence.
Capture(a, maxFrames) ==
  /\ proc[a] = "live" /\ inCtx[a] = "running"
  /\ nFrames < maxFrames
  /\ \E f \in (IF enabled[a] /\ stream[a] = "live" THEN Frames ELSE {Silence}) :
       Becomes(onaudioprocess(Cur, a, f))

\* The output clock of a running context advances.
Tick(a, maxTime) ==
  /\ outCtx[a] = "running" /\ clock[a] < maxTime
  /\ Becomes([Cur EXCEPT !.clock[a] = @ + 1, !.last = Did(Cur, "tick", a)])

\* The host fires 'ended' on a unit that played to its end or was stopped;
\* a closed context fires nothing.
Ended(u) ==
  /\ u \in DOMAIN units
  /\ outCtx[units[u].att] = "running"
  /\ \/ units[u].state = "stopped"
     \/ /\ units[u].state = "started"
        /\ clock[units[u].att] >= units[u].start + units[u].dur
  /\ Becomes(onended(Cur, u))

\* The lifecycle: several attempts, their sessions alive side by side.
SpecAttempts == 1..MaxAttempts

Next ==
  \/ \E a \in SpecAttempts : Connect(a)
  \/ \E a \in SpecAttempts : GumDenied(a)
  \/ \E a \in SpecAttempts : GumGranted(a)
  \/ \E a \in SpecAttempts : SessionReject(a)
  \/ \E a \in SpecAttempts : SessionOpen(a)
  \/ \E a \in SpecAttempts : Message(a, MaxMsgs)
  \/ \E d \in decoding : Decoded(d)
  \/ \E a \in SpecAttempts : SessionError(a)
  \/ \E a \in SpecAttempts : SessionClose(a)
  \/ Disconnect
  \/ ToggleMic(MaxToggles)
  \/ \E a \in SpecAttempts : Capture(a, MaxFrames)
  \/ \E a \in SpecAttempts : Tick(a, MaxTime)
  \/ \E u \in DOMAIN units : Ended(u)

Spec == Init /\ [][Next]_vars

\* Playback: one attempt, more messages and a longer clock, no microphone.
PlayAttempts == 1..MaxPlayAttempts

PlayNext ==
  \/ \E a \in PlayAttempts : Connect(a)
  \/ \E a \in PlayAttempts : GumDenied(a)
  \/ \E a \in PlayAttempts : GumGranted(a)
  \/ \E a \in PlayAttempts : SessionReject(a)
  \/ \E a \in PlayAttempts : SessionOpen(a)
  \/ \E a \in PlayAttempts : Message(a, MaxPlayMsgs)
  \/ \E d \in decoding : Decoded(d)
  \/ \E a \in PlayAttempts : SessionError(a)
  \/ \E a \in PlayAttempts : SessionClose(a)
  \/ Disconnect
  \/ \E a \in PlayAttempts : Tick(a, MaxPlayTime)
  \/ \E u \in DOMAIN units : Ended(u)

PlaySpec == Init /\ [][PlayNext]_vars

\* Reconnects: more attempts, the lifecycle events and the microphone only.
LongAttempts == 1..MaxLongAttempts

LongNext ==
  \/ \E a \in LongAttempts : Connect(a)
  \/ \E a \in LongAttempts : GumDenied(a)
  \/ \E a \in LongAttempts : GumGranted(a)
  \/ \E a \in LongAttempts : SessionReject(a)
  \/ \E a \in LongAttempts : SessionOpen(a)
  \/ \E a \in LongAttempts : SessionError(a)
  \/ \E a \in LongAttempts : SessionClose(a)
  \/ Disconnect

LongSpec == Init /\ [][LongNext]_vars

\* The microphone: capture and mute across a reconnect, no inbound audio.
MicAttempts == 1..MaxMicAttempts

MicNext ==
  \/ \E a \in MicAttempts : Connect(a)
  \/ \E a \in MicAttempts : GumDenied(a)
  \/ \E a \in MicAttempts : GumGranted(a)
  \/ \E a \in MicAttempts : SessionReject(a)
  \/ \E a \in MicAttempts : SessionOpen(a)
  \/ \E a \in MicAttempts : SessionError(a)
  \/ \E a \in MicAttempts : SessionClose(a)
  \/ Disconnect
  \/ ToggleMic(MaxMicToggles)
  \/ \E a \in MicAttempts : Capture(a, MaxMicFrames)

MicSpec == Init /\ [][MicNext]_vars

\* Overlapping attempts: the events that let several calls of connectToGemini
\* and their sessions overlap (a session left open by handleDisconnect closes
\* during a later attempt), and the capture callback.
RaceAttempts == 1..MaxRaceAttempts

RaceNext ==
  \/ \E a \in RaceAttempts : Connect(a)
  \/ \E a \in RaceAttempts : GumGranted(a)
  \/ \E a \in RaceAttempts : SessionOpen(a)
  \/ \E a \in RaceAttempts : SessionClose(a)
  \/ Disconnect
  \/ \E a \in RaceAttempts : Capture(a, MaxRaceFrames)

RaceSpec == Init /\ [][RaceNext]_vars

\* ================================================================ claims

\* ---- C1
AllowedTransitions ==
  { <<DISCONNECTED, CONNECTING>>, <<ERROR, CONNECTING>>,
    <<CONNECTING, CONNECTED>>, <<CONNECTED, DISCONNECTED>> }
  \cup { <<x, ERROR>> : x \in ConnectionState }

\* C1: every change of the connection state made by a handler is one of
\* Disconnected->Connecting, Error->Connecting, Connecting->Connected,
\* Connected->Disconnected or (any state)->Error.
C1_OnlyAllowedTransitions ==
  connectionState # last.state =>
    <<last.state, connectionState>> \in AllowedTransitions

\* ---- C2
\* C2: right after a handler ran the interruption branch, the active playback
\* set is empty and the cursor equals the current time of the output clock of
\* the session that delivered the message.
C2_InterruptionClears ==
  last.intr => /\ audioSources = {}
               /\ nextStartTime = clock[last.att]

\* C2 witness: an interruption that found two units in the active set, on a
\* clock that has advanced, and stopped both.
C2_Witness ==
  /\ last.intr /\ last.flushed = 2
  /\ clock[last.att] > 0
  /\ \A u \in last.active : units[u].state = "stopped"

\* ---- C3
\* no cursor reset (interruption, open) between the arrival of the message of
\* unit u and the scheduling of units u and v
NoResetBetween(u, v) ==
  /\ units[u].arrEpoch = units[u].epoch
  /\ units[u].arrEpoch = units[v].epoch

\* C3: of two units of one session with no interruption in between, the one
\* whose message arrived first is scheduled first, and the other one starts
\* no earlier than the first one ends (at t and at t + d1 for two messages in
\* a row).
C3_ArrivalOrder ==
  \A u, v \in DOMAIN units :
     ( /\ units[u].att = units[v].att
       /\ units[u].msg < units[v].msg
       /\ NoResetBetween(u, v) )
     => units[v].start >= units[u].start + units[u].dur

\* ---- C9
\* C9: no unit is given a start time earlier than the time the output clock
\* shows when the unit is scheduled.
C9_StartNotInPast ==
  \A u \in DOMAIN units : units[u].start >= units[u].now

\* ---- C4
\* C4 as stated: the cursor is lower after a handler than before it only if
\* the handler ran the interruption branch.
C4_DecreaseOnlyOnInterruption ==
  nextStartTime < last.cursor => last.intr

\* C4 amended: the cursor is lower after a handler than before it only if the
\* handler ran the interruption branch or was onopen, which sets the cursor to
\* the current time of the new output clock.
C4_DecreaseOnlyOnReset ==
  nextStartTime < last.cursor => (last.intr \/ last.op = "open")

\* C4 witness: the onopen of a second session lowers the cursor, and an
\* interruption lowers it.
C4_WitnessOpen ==
  /\ last.op = "open" /\ last.att = 2
  /\ nextStartTime < last.cursor

C4_WitnessInterruption ==
  /\ last.intr
  /\ nextStartTime < last.cursor

\* ---- C5
\* the audio resources attempt a acquired are released
AttemptReleased(a) ==
  /\ inCtx[a] # "running" /\ outCtx[a] # "running"
  /\ stream[a] # "live"
  /\ inputAudioContextRef # a /\ outputAudioContextRef # a
  /\ mediaStreamRef # a

\* C5: right after a step of connect() failed, the connection state is Error,
\* the audio resources of the attempt are released and no error was left
\* uncaught.
C5_FailedConnectEndsInError ==
  last.failed => /\ connectionState = ERROR
                 /\ AttemptReleased(last.att)
                 /\ uncaught = last.uncaught

\* ---- C7
\* the state cleanupAudio leaves: every handle null, no active unit, both
\* volume indicators 0
Clean(s) ==
  /\ s.processorRef = Null /\ s.sourceNodeRef = Null
  /\ s.mediaStreamRef = Null
  /\ s.inputAudioContextRef = Null /\ s.outputAudioContextRef = Null
  /\ s.audioSources = {}
  /\ s.volume = ZeroVolume /\ s.aiVolume = 0

\* C7: called in any reachable state, cleanupAudio raises no error (neither
\* thrown nor as the rejected promise of a second close()), leaves the clean
\* state, and a second call right after it changes nothing.
C7_CleanupIdempotent ==
  LET once  == cleanupAudio(Cur)
      twice == cleanupAudio(once)
  IN  /\ Clean(once)
      /\ once.uncaught = uncaught
      /\ twice = once

\* C7 witness: cleanupAudio has just run twice in a row (onerror, then the
\* onclose of the same session), the first time on a state that held every
\* resource and an active unit.
C7_Witness ==
  /\ last.op = "close"
  /\ Len(logs) >= 2
  /\ logs[Len(logs) - 1].text = "Error"
  /\ logs[Len(logs) - 1].att = last.att
  /\ proc[last.att] = "off" /\ stream[last.att] = "stopped"
  /\ \E u \in DOMAIN units : units[u].state = "stopped"
  /\ Clean(Cur)

\* ---- C8
\* C8: a handler in which the decode of the audio payload failed leaves the
\* connection state as it was, adds no unit to the active set, appends nothing
\* to the log but the entry of the interruption flag of the same message, and
\* leaves the session open; that interruption is processed as usual.
C8_BadAudioDropped ==
  last.bad =>
    /\ connectionState = last.state
    /\ audioSources \subseteq last.active
    /\ uncaught = last.uncaught
    /\ sess[last.att] = "open"
    /\ Len(logs) = last.nlogs + (IF last.intr THEN 1 ELSE 0)
    /\ last.intr => /\ logs[Len(logs)].text = "User interrupted AI."
                    /\ audioSources = {}
                    /\ nextStartTime = clock[last.att]

\* C8 witness: a payload that failed to decode arrived while a unit was in
\* the active set and left it there; and one arrived with the flag set.
C8_WitnessDropped ==
  /\ last.bad /\ ~last.intr
  /\ audioSources # {}

C8_WitnessInterrupted ==
  /\ last.bad /\ last.intr /\ last.flushed > 0

\* ---- C10
FailureTexts == {"Failed to connect", "Error"}

FailureEntries(a) ==
  {i \in DOMAIN logs : logs[i].att = a /\ logs[i].text \in FailureTexts}

\* getUserMedia was denied to attempt a: it made both contexts, got no stream
\* and is over
Denied(a) == pc[a] = "done" /\ outCtx[a] # "none" /\ stream[a] = "none"

\* C10: when getUserMedia is denied, the handler leaves the state Error and
\* appends one entry, and the log never holds another failure entry of that
\* attempt.
C10_DeniedOneEntry ==
  /\ last.op = "gumDenied" =>
        /\ connectionState = ERROR
        /\ Len(logs) = last.nlogs + 1
        /\ logs[Len(logs)].text = "Failed to connect"
  /\ \A a \in Attempts : Denied(a) => Cardinality(FailureEntries(a)) = 1

\* C10 witness: the second attempt was denied the microphone while the session
\* of the first one was still there, and that session failed afterwards.
C10_Witness ==
  /\ Denied(2)
  /\ sess[1] = "errored"
  /\ Cardinality(FailureEntries(1)) = 1

\* ---- C6
\* no host audio resource of any attempt is held
NothingHeld ==
  /\ processorRef = Null /\ sourceNodeRef = Null /\ mediaStreamRef = Null
  /\ inputAudioContextRef = Null /\ outputAudioContextRef = Null
  /\ audioSources = {}
  /\ \A a \in Attempts :
        /\ stream[a] # "live"
        /\ inCtx[a] # "running" /\ outCtx[a] # "running"
        /\ proc[a] # "live" \/ inCtx[a] = "closed"

\* C6: when handleDisconnect has completed, the state is Disconnected and no
\* host audio resource is held; and from then until the next connect() no
\* capture callback runs and no frame is sent.
C6_DisconnectReleases ==
  /\ (last.op = "disconnect" /\ released) =>
        /\ connectionState = DISCONNECTED
        /\ NothingHeld
  /\ released => last.op # "frame"
  /\ \A i \in DOMAIN sent : ~sent[i].afterRelease

\* ---- C11
\* the host can deliver a frame to the processor of attempt a in state s
Capturing(s, a) == s.proc[a] = "live" /\ s.inCtx[a] = "running"

\* C11: in every Connected state a click on the mute button changes nothing
\* but the enabled flag of the held track, the mute indicator and the log
\* (connection state, session promise, capture node, cursor and active set
\* stay as they are); with a stream held the flag flips, the indicator mirrors
\* it and one entry is logged; and a processor that was capturing still is:
\* its next frame is metered and handed to the session just as without the
\* click.
C11_ToggleOnlyFlipsFlag ==
  connectionState = CONNECTED =>
    LET t == toggleMic(Cur)
        m == mediaStreamRef
    IN  /\ t = [Cur EXCEPT !.enabled = t.enabled, !.isMicOn = t.isMicOn,
                           !.logs = t.logs, !.last = t.last,
                           !.nToggles = t.nToggles]
        /\ \A a \in Attempts : a # m => t.enabled[a] = enabled[a]
        /\ m # Null => /\ t.enabled[m] = ~enabled[m]
                       /\ t.isMicOn = t.enabled[m]
                       /\ Len(t.logs) = Len(logs) + 1
        /\ m = Null => t.logs = logs /\ t.isMicOn = isMicOn
        /\ \A a \in Attempts : Capturing(Cur, a) =>
             /\ Capturing(t, a)
             /\ \A f \in Frames :
                  LET with == onaudioprocess(t, a, f)
                      without == onaudioprocess(Cur, a, f)
                  IN  /\ with.volume = Volume(f)
                      /\ with.sent = without.sent
                      /\ with.reactions = without.reactions

\* C11 witness: the microphone was muted while Connected, and the frame
\* captured after the click was metered and sent to the session.
C11_Witness ==
  /\ last.op = "frame" /\ nToggles = 1
  /\ connectionState = CONNECTED
  /\ ~isMicOn /\ ~enabled[last.att] /\ mediaStreamRef = last.att
  /\ Len(sent) = 1 /\ sent[1].to = last.att

\* ---- C12
\* C12: the frames handed to sendRealtimeInput appear in the order they were
\* captured (frames are numbered as onaudioprocess receives them).
C12_SentInCaptureOrder ==
  \A i, j \in DOMAIN sent : i < j => sent[i].frame < sent[j].frame

\* the frames handed to one session appear in the order they were captured:
\* the callbacks waiting on a promise run in the order of their then()
SentInCaptureOrderPerSession ==
  \A i, j \in DOMAIN sent :
     (i < j /\ sent[i].to = sent[j].to) => sent[i].frame < sent[j].frame

\* the send of a frame waits on the pending promise of an attempt whose
\* getUserMedia resolved after that of the attempt that captures
SendWaits ==
  \E a \in Attempts : \E i \in DOMAIN reactions[a] :
     /\ reactions[a][i].kind = "send"
     /\ promise[a] = "pending"

\* the second frame has been sent to the session in use, and the first one
\* after it, to a session that opened later
SentOutOfOrder ==
  /\ Len(sent) = 2
  /\ sent[1].frame = 2 /\ sent[2].frame = 1
  /\ sent[1].to # sent[2].to

\* ---- C13
\* C13: the input volume published for a captured frame (kept as the square
\* volume^2 = sq / per) lies in [0, 1]; it is 0 for a frame of zeros, the
\* only frame a muted or stopped track yields.
C13_VolumeInUnitRange ==
  /\ 0 <= volume.sq /\ volume.sq <= volume.per
  /\ (last.op = "frame" /\ ~(enabled[last.att] /\ stream[last.att] = "live"))
        => volume.sq = 0

\* ---- C14
\* the units that were started and have neither been stopped nor had their
\* 'ended' event
Playing == {u \in DOMAIN units : units[u].state = "started"}

\* C14: the active playback set holds exactly the units that were started and
\* have neither been stopped (interruption, cleanupAudio) nor had their
\* 'ended' event.
C14_ActiveSetExact == audioSources = Playing

\* C14 witness: the 'ended' event of a unit that played to its end has just
\* taken it out of the set, another unit was stopped by a flush, and a third
\* one is in the set.
C14_Witness ==
  /\ last.op = "ended" /\ last.active # audioSources
  /\ \E u \in DOMAIN units : units[u].state = "stopped"
  /\ audioSources # {}

\* ---- C15
\* C15: the amplitude sampler of a unit re-arms itself after a sample exactly
\* when the connection state is Connected at that sample.
C15_SamplerRearmsWhileConnected ==
  \A u \in DOMAIN units : units[u].armed <=> units[u].conn = CONNECTED

\* no sampler ever re-arms itself: the Start button is rendered only in the
\* states Disconnected and Error, so no closure of connectToGemini holds
\* CONNECTED
NeverRearms ==
  /\ \A a \in Attempts : closure[a] # CONNECTED
  /\ \A u \in DOMAIN units : ~units[u].armed

\* ---- C16
\* the sessions that can still deliver open, message, close or error events
LiveSessions == {a \in Attempts : sess[a] \in {"connecting", "open"}}

\* C16: when handleDisconnect has completed, the session it waited for is no
\* longer open; and at no time are two sessions open or being opened.
C16_AtMostOneSession ==
  /\ (last.op = "disconnect" /\ released) => last.att \notin LiveSessions
  /\ Cardinality(LiveSessions) <= 1

\* two sessions are open side by side, the first left open by a completed
\* handleDisconnect
TwoSessionsOpen ==
  /\ sess[1] = "open" /\ sess[2] = "open"
  /\ connectionState = CONNECTED

\* ---- C17
\* the user disconnected from the session of attempt a (a "Disconnecting..."
\* entry follows its "Connected!" entry with no connect() in between, and the
\* disconnect has completed) and started a later attempt
Superseded(a) ==
  /\ \E i, j \in DOMAIN logs :
        /\ i < j
        /\ logs[i].att = a
        /\ logs[i].text = "Connected! Start speaking to CodeCompanion."
        /\ logs[j].text = "Disconnecting..."
        /\ \A k \in (i + 1)..(j - 1) :
              logs[k].text # "Initializing audio contexts..."
  /\ promise[a] = "resolved"
  /\ \E b \in Attempts : b > a /\ pc[b] # "idle"

\* the callbacks a session delivers (the continuation of onmessage included)
SessionEvents == {"open", "message", "decoded", "close", "error"}

\* C17: a callback of a superseded session leaves the connection state, the
\* playback cursor and the active playback set as it found them.
C17_StaleEventsHaveNoEffect ==
  (last.op \in SessionEvents /\ last.att # Null /\ Superseded(last.att)) =>
     /\ connectionState = last.state
     /\ nextStartTime = last.cursor
     /\ audioSources = last.active

\* the close of a superseded session has released the contexts and the
\* stream of the attempt that followed it, whose session is being opened
StaleCloseReleasesNewer ==
  /\ last.op = "close" /\ last.att = 1 /\ Superseded(1)
  /\ sess[2] = "connecting"
  /\ outCtx[2] = "closed" /\ stream[2] = "stopped"

\* ---- C18
\* C18: in a Connected state both context refs and the stream ref are
\* non-null and name resources that have not been released, and the session
\* promise ref is non-null.
C18_ConnectedHoldsResources ==
  connectionState = CONNECTED =>
    /\ inputAudioContextRef # Null /\ inCtx[inputAudioContextRef] = "running"
    /\ outputAudioContextRef # Null /\ outCtx[outputAudioContextRef] = "running"
    /\ mediaStreamRef # Null /\ stream[mediaStreamRef] = "live"
    /\ sessionPromiseRef # Null

\* the session of a second attempt opened after the close of the session the
\* user had disconnected from released what the second attempt had acquired:
\* Connected with no context and no stream
ConnectedWithoutResources ==
  /\ connectionState = CONNECTED /\ last.op = "open" /\ last.att = 2
  /\ Superseded(1) /\ sess[1] = "closed"
  /\ inputAudioContextRef = Null /\ outputAudioContextRef = Null
  /\ inCtx[2] = "closed" /\ outCtx[2] = "closed"

\* ---- C19
\* C19: while the state is not Connected (before the first connect(), and
\* from a release until a later connect() reaches Connected) the active
\* playback set is empty and no handler starts a playback unit.
C19_NoPlaybackAfterRelease ==
  connectionState # CONNECTED =>
    /\ audioSources = {}
    /\ last.op # "decoded"

\* a unit was started on the output context that handleDisconnect had closed
\* while the unit's audio was being decoded
StartedOnClosedContext ==
  /\ last.op = "decoded" /\ released
  /\ connectionState = DISCONNECTED
  /\ \E u \in audioSources : outCtx[units[u].att] = "closed"

\* ---- C20
\* C20: whenever a microphone stream is held, the mute indicator equals the
\* enabled flag of the track of that stream.
C20_IndicatorMirrorsTrack ==
  mediaStreamRef # Null => isMicOn = enabled[mediaStreamRef]

\* the indicator shows MUTED while a frame of the enabled track of the second
\* stream has just been captured and sent
MutedShownWhileSending ==
  /\ ~isMicOn /\ connectionState = CONNECTED
  /\ mediaStreamRef = 2 /\ enabled[2] /\ stream[2] = "live"
  /\ last.op = "frame" /\ last.att = 2
  /\ volume # ZeroVolume
  /\ sent # << >> /\ sent[Len(sent)].to = 2

====
